---- MODULE Spec2Model ----
(***************************************************************************)
(* Model of scripts/fetch_rss.py: the RSS ingestion pipeline (fetch_feed,  *)
(* main) over the SQLite table `articles`.                                 *)
(*                                                                         *)
(* Conventions.                                                            *)
(*  - A text (title, summary, scorer reply) is a sequence of one-character *)
(*    strings, so that substring search, lower-casing and regex scans are  *)
(*    computed character by character as the code does.                    *)
(*  - A timestamp "YYYY-MM-DD HH:MM:SS" is modelled by its calendar day (a *)
(*    natural number); `published LIKE 'today%'` is equality of days.      *)
(*  - A score is an integer number of hundredths (5.0 is 500, 6.0 is 600). *)
(***************************************************************************)
EXTENDS Integers, Sequences, FiniteSets, TLC

(***************************************************************************)
(* Bounds of the model.                                                    *)
(***************************************************************************)
MaxDay == 2
MaxRuns == 2
\* clean_summary on its own: the longest summary and the largest max_length
MaxSummaryLen == 6
MaxLength == 5

(***************************************************************************)
(* Text helpers (Python str methods and the re module, as far as used).    *)
(***************************************************************************)
Min(a, b) == IF a < b THEN a ELSE b
Max(a, b) == IF a > b THEN a ELSE b

Take(s, n) == SubSeq(s, 1, Min(n, Len(s)))

UpperToLower ==
  [A |-> "a", B |-> "b", C |-> "c", D |-> "d", E |-> "e", F |-> "f", G |-> "g",
   H |-> "h", I |-> "i", J |-> "j", K |-> "k", L |-> "l", M |-> "m", N |-> "n",
   O |-> "o", P |-> "p", Q |-> "q", R |-> "r", S |-> "s", T |-> "t", U |-> "u",
   V |-> "v", W |-> "w", X |-> "x", Y |-> "y", Z |-> "z"]

LowerChar(c) == IF c \in DOMAIN UpperToLower THEN UpperToLower[c] ELSE c

\* str.lower()
Lower(s) == [i \in 1..Len(s) |-> LowerChar(s[i])]

\* needle in hay
Contains(hay, needle) ==
  \E i \in 1..(Len(hay) - Len(needle) + 1) :
     SubSeq(hay, i, i + Len(needle) - 1) = needle

Digits == {"0", "1", "2", "3", "4", "5", "6", "7", "8", "9"}

DigitVal ==
  [c \in Digits |->
     CASE c = "0" -> 0 [] c = "1" -> 1 [] c = "2" -> 2 [] c = "3" -> 3
       [] c = "4" -> 4 [] c = "5" -> 5 [] c = "6" -> 6 [] c = "7" -> 7
       [] c = "8" -> 8 [] c = "9" -> 9]

Whitespace == {" ", "\t", "\n", "\r"}

\* index of the first element of s at or after i that satisfies "in set", 0 if none
RECURSIVE FirstIn(_, _, _)
FirstIn(s, i, set) ==
  IF i > Len(s) THEN 0
  ELSE IF s[i] \in set THEN i
  ELSE FirstIn(s, i + 1, set)

\* index of the first element of s at or after i that is NOT in set, Len(s)+1 if none
RECURSIVE FirstNotIn(_, _, _)
FirstNotIn(s, i, set) ==
  IF i > Len(s) THEN Len(s) + 1
  ELSE IF s[i] \notin set THEN i
  ELSE FirstNotIn(s, i + 1, set)

\* re.sub(r'<[^>]+>', '', s), scanning from position i
RECURSIVE StripTags(_, _)
StripTags(s, i) ==
  IF i > Len(s) THEN << >>
  ELSE IF /\ s[i] = "<"
          /\ i + 1 <= Len(s)
          /\ s[i + 1] # ">"
          /\ FirstIn(s, i + 2, {">"}) # 0
       THEN StripTags(s, FirstIn(s, i + 2, {">"}) + 1)
       ELSE <<s[i]>> \o StripTags(s, i + 1)

\* re.sub(r'\s+', ' ', s), scanning from position i
RECURSIVE CollapseWs(_, _)
CollapseWs(s, i) ==
  IF i > Len(s) THEN << >>
  ELSE IF s[i] \in Whitespace
       THEN <<" ">> \o CollapseWs(s, FirstNotIn(s, i, Whitespace))
       ELSE <<s[i]>> \o CollapseWs(s, i + 1)

\* index of the last element of s at or before i that is NOT in set, 0 if none
RECURSIVE LastNotIn(_, _, _)
LastNotIn(s, i, set) ==
  IF i < 1 THEN 0
  ELSE IF s[i] \notin set THEN i
  ELSE LastNotIn(s, i - 1, set)

\* str.strip()
Strip(s) ==
  SubSeq(s, FirstNotIn(s, 1, Whitespace), LastNotIn(s, Len(s), Whitespace))

\* index of the last " " of s at or before i, 0 if none
RECURSIVE LastSpace(_, _)
LastSpace(s, i) ==
  IF i < 1 THEN 0
  ELSE IF s[i] = " " THEN i
  ELSE LastSpace(s, i - 1)

\* s.rsplit(' ', 1)[0]
RSplitHead(s) ==
  IF LastSpace(s, Len(s)) = 0 THEN s
  ELSE SubSeq(s, 1, LastSpace(s, Len(s)) - 1)

clean_summary(summary, max_length) ==
  IF summary = << >> THEN << >>
  ELSE LET clean == Strip(CollapseWs(StripTags(summary, 1), 1))
       IN  IF Len(clean) > max_length
           THEN RSplitHead(Take(clean, max_length)) \o <<".", ".", ".">>
           ELSE clean

(***************************************************************************)
(* score_research_paper: the external scorer and the parsing of its reply. *)
(* A reply is [ok |-> FALSE] when the API call raises, else the text of    *)
(* response.choices[0].message.content.                                    *)
(***************************************************************************)
NEUTRAL_SCORE == 500

NumChars == Digits \cup {"."}

\* value of a sequence of digits read as a decimal integer
RECURSIVE IntOf(_)
IntOf(ds) ==
  IF ds = << >> THEN 0
  ELSE 10 * IntOf(SubSeq(ds, 1, Len(ds) - 1)) + DigitVal[ds[Len(ds)]]

\* re.search(r'[\d.]+', text).group(): << >> stands for "no match" (None)
NumberRun(text) ==
  LET start == FirstIn(text, 1, NumChars)
  IN  IF start = 0 THEN << >>
      ELSE SubSeq(text, start, FirstNotIn(text, start, NumChars) - 1)

\* float(run) is defined iff the run has at most one "." and at least one digit
FloatOk(run) ==
  /\ Cardinality({i \in 1..Len(run) : run[i] = "."}) <= 1
  /\ \E i \in 1..Len(run) : run[i] \in Digits

\* float(run) in hundredths (exact for up to two fractional digits)
FloatOf(run) ==
  LET dot  == FirstIn(run, 1, {"."})
      int  == IF dot = 0 THEN run ELSE SubSeq(run, 1, dot - 1)
      frac == IF dot = 0 THEN << >> ELSE SubSeq(run, dot + 1, Len(run))
      f2   == Take(frac \o <<"0", "0">>, 2)
  IN  100 * IntOf(int) + IntOf(f2)

\* ClampScore without its upper bound: max(0, score)
ClampScoreLowerOnly(score) == Max(0, score)

\* min(10, max(0, score))
ClampScore(score) == Min(1000, Max(0, score))

\* the try block of score_research_paper: TRUE iff it raises
ScorerRaises(reply) ==
  \/ ~reply.ok
  \/ NumberRun(Strip(reply.text)) = << >>
  \/ ~FloatOk(NumberRun(Strip(reply.text)))

\* score_research_paper whose except clause returns the column default 0
score_research_paper_zero(enabled, reply) ==
  IF ~enabled THEN NEUTRAL_SCORE
  ELSE IF ScorerRaises(reply) THEN 0
  ELSE ClampScore(FloatOf(NumberRun(Strip(reply.text))))

score_research_paper(enabled, reply) ==
  IF ~enabled THEN NEUTRAL_SCORE
  ELSE IF ScorerRaises(reply) THEN NEUTRAL_SCORE
  ELSE ClampScore(FloatOf(NumberRun(Strip(reply.text))))

ScorerReplies ==
  { [ok |-> FALSE, text |-> << >>],
    [ok |-> TRUE, text |-> <<"9">>],
    [ok |-> TRUE, text |-> <<"S", "c", "o", "r", "e", ":", " ", "7", ".", "5">>],
    [ok |-> TRUE, text |-> <<"6", ".", "0">>],
    [ok |-> TRUE, text |-> <<"5", ".", "9", "9">>],
    [ok |-> TRUE, text |-> <<"1", "5">>],
    [ok |-> TRUE, text |-> <<"N", "/", "A">>],
    [ok |-> TRUE, text |-> <<"1", ".", "2", ".", "3">>] }

(***************************************************************************)
(* Configuration (feeds.yaml) and the feed entries the network can return. *)
(***************************************************************************)
Get(rec, key, default) == IF key \in DOMAIN rec THEN rec[key] ELSE default

feeds ==
  << [name |-> "X", url |-> "https://x.test/rss", category |-> "news",
      max_per_day |-> 2],
     [name |-> "arXiv", url |-> "https://arxiv.test/rss", category |-> "research",
      max_per_day |-> 2, tier |-> 1, requires_scoring |-> TRUE] >>

\* hashlib.md5(url.encode()).hexdigest()[:12] of the URLs that occur
generate_id(url) ==
  CASE url = "https://x.test/a" -> "b21677be5fdc"
    [] url = "https://x.test/b" -> "466cd78fb20d"
    [] url = "https://x.test/c" -> "ba262573a6d6"
    [] url = "https://x.test/d" -> "fb5c7e8efe45"
    [] url = "https://x.test/s" -> "78536c5acce8"
    [] url = "https://x.test/m" -> "21d39ba349d5"

\* Feed entries.  A date field holds the calendar day of its struct_time;
\* day 0 is a struct_time that datetime() rejects (year 0).
EntryA == [link |-> "https://x.test/a", title |-> <<"G", "P", "T">>,
           summary |-> <<"<", "p", ">", "N", "e", "w", " ", " ", "m", "o", "d", "e", "l", "<", "/", "p", ">">>, published_parsed |-> 1]
EntryB == [link |-> "https://x.test/b", title |-> <<"Q", "w", "e", "n">>,
           description |-> <<"o", "p", "e", "n", " ", "w", "e", "i", "g", "h", "t", "s">>, updated_parsed |-> 1]
EntryC == [link |-> "https://x.test/c", title |-> <<"D", "e", "e", "p", "S", "e", "e", "k">>]
EntryD == [link |-> "https://x.test/d", published_parsed |-> 0,
           created_parsed |-> 1]
EntryS == [link |-> "https://x.test/s", title |-> <<"S", "C", "H", "E", "D", "U", "L", "E", "D", " ", "u", "p", "g", "r", "a", "d", "e">>,
           published_parsed |-> 1]
EntryM == [link |-> "https://x.test/m", title |-> <<"N", "o", "t", "i", "c", "e">>,
           summary |-> <<"P", "l", "a", "n", "n", "e", "d", " ", "M", "a", "i", "n", "t", "e", "n", "a", "n", "c", "e", " ", "W", "i", "n", "d", "o", "w">>]
EntryN == [title |-> <<"N", "o", " ", "l", "i", "n", "k">>, published_parsed |-> 1]

EntryPool == {EntryA, EntryB, EntryC, EntryD, EntryS, EntryM, EntryN}

\* a feed longer than the cap of 30 entries: EntryB is its 31st entry
LongEntries ==
  [i \in 1..31 |-> CASE i = 1 -> EntryS
                     [] i = 2 -> EntryC
                     [] i = 3 -> EntryM
                     [] i = 4 -> EntryA
                     [] i = 31 -> EntryB
                     [] OTHER -> EntryN]

\* what feedparser.parse(url) can return: its entries and its bozo flag
CoarseResults ==
  { [entries |-> << >>, bozo |-> TRUE],
    [entries |-> <<EntryA, EntryB, EntryD>>, bozo |-> FALSE],
    [entries |-> LongEntries, bozo |-> TRUE] }

ParseResults ==
  CoarseResults \cup
  { [entries |-> << >>, bozo |-> FALSE],
    [entries |-> <<EntryA, EntryA, EntryC>>, bozo |-> FALSE],
    [entries |-> <<EntryC, EntryB, EntryC>>, bozo |-> FALSE] }

(***************************************************************************)
(* fetch_feed, step by step.  `view` is what the connection's cursor sees: *)
(* the committed rows followed by the rows of the open transaction.        *)
(***************************************************************************)
ENTRY_CAP == 30
DEFAULT_MAX_PER_DAY == 30
DEFAULT_TIER == 2
SCORE_THRESHOLD == 600
SUMMARY_MAX_LENGTH == 300
ABSTRACT_CHARS == 500

Untitled == <<"U", "n", "t", "i", "t", "l", "e", "d">>

skip_keywords ==
  << <<"S", "C", "H", "E", "D", "U", "L", "E", "D">>,
     <<"s", "c", "h", "e", "d", "u", "l", "e", "d", " ", "m", "a", "i", "n", "t", "e", "n", "a", "n", "c", "e">>,
     <<"S", "c", "h", "e", "d", "u", "l", "e", "d", " ", "-">>,
     <<"m", "a", "i", "n", "t", "e", "n", "a", "n", "c", "e", " ", "w", "i", "n", "d", "o", "w">> >>

DateFields == <<"published_parsed", "updated_parsed", "created_parsed">>

\* datetime(*struct_time[:6]) raises for day 0
RECURSIVE ParseDateFrom(_, _, _)
ParseDateFrom(entry, k, now) ==
  IF k > Len(DateFields) THEN now
  ELSE IF DateFields[k] \in DOMAIN entry /\ entry[DateFields[k]] # 0
       THEN entry[DateFields[k]]
       ELSE ParseDateFrom(entry, k + 1, now)

parse_date(entry, now) == ParseDateFrom(entry, 1, now)

\* SELECT id FROM articles WHERE id = ?
Exists(view, id) == \E i \in 1..Len(view) : view[i].id = id

\* SELECT COUNT(*) FROM articles WHERE source = ? AND published LIKE 'day%'
CountSourceDay(view, source, day) ==
  Cardinality({i \in 1..Len(view) :
                 view[i].source = source /\ view[i].published = day})

\* remaining_slots that leaves out the rows already stored today
remaining_slots_uncounted(max_per_day, today_count) == Max(0, max_per_day)

remaining_slots(max_per_day, today_count) == Max(0, max_per_day - today_count)

\* IsSkipped without the .lower() of the text
IsSkippedCaseSensitive(title, summary_raw) ==
  \E k \in 1..Len(skip_keywords) :
     Contains(title \o <<" ">> \o summary_raw, Lower(skip_keywords[k]))

\* any(kw.lower() in (title + ' ' + summary_raw).lower() for kw in skip_keywords)
IsSkipped(title, summary_raw) ==
  \E k \in 1..Len(skip_keywords) :
     Contains(Lower(title \o <<" ">> \o summary_raw), Lower(skip_keywords[k]))

SummaryRaw(entry) == Get(entry, "summary", Get(entry, "description", << >>))

\* the per-entry values of the loop body that depend on the entry alone
SkipOf == [e \in EntryPool |-> IsSkipped(Get(e, "title", Untitled), SummaryRaw(e))]
SummaryOf == [e \in EntryPool |-> clean_summary(SummaryRaw(e), SUMMARY_MAX_LENGTH)]

\* the loop over feed.entries[:30] that builds `candidates`
RECURSIVE Collect(_, _, _, _)
Collect(entries, i, view, now) ==
  IF i > Len(entries) THEN << >>
  ELSE LET entry == entries[i]
           url   == Get(entry, "link", "")
           rest  == Collect(entries, i + 1, view, now)
       IN  IF url = "" THEN rest
           ELSE IF Exists(view, generate_id(url)) THEN rest
           ELSE IF SkipOf[entry] THEN rest
           ELSE << [id        |-> generate_id(url),
                    title     |-> Get(entry, "title", Untitled),
                    url       |-> url,
                    published |-> parse_date(entry, now),
                    summary   |-> SummaryOf[entry],
                    fetched   |-> now,
                    score     |-> NEUTRAL_SCORE] >> \o rest

Candidates(content, view, now) == Collect(Take(content, ENTRY_CAP), 1, view, now)

\* score_research_paper tabulated over the replies of the model
ScoreOf ==
  [enabled \in BOOLEAN |-> [reply \in ScorerReplies |->
                              score_research_paper(enabled, reply)]]

\* for c in candidates: c['score'] = score_research_paper(...)
ScoreAll(cands, enabled, replies) ==
  [i \in 1..Len(cands) |->
     [cands[i] EXCEPT !.score = ScoreOf[enabled][replies[i]]]]

\* position of x in a list sorted by score descending, after its equals
RECURSIVE InsertDesc(_, _)
InsertDesc(sorted, x) ==
  IF sorted = << >> THEN <<x>>
  ELSE IF sorted[1].score >= x.score
       THEN <<sorted[1]>> \o InsertDesc(Tail(sorted), x)
       ELSE <<x>> \o sorted

\* the sort without reverse=True: ascending, stable
RECURSIVE SortByScoreAsc(_)
SortByScoreAsc(cands) ==
  IF cands = << >> THEN << >>
  ELSE LET rest == SortByScoreAsc(SubSeq(cands, 1, Len(cands) - 1))
           x    == cands[Len(cands)]
           n    == Cardinality({i \in 1..Len(rest) : rest[i].score <= x.score})
       IN  SubSeq(rest, 1, n) \o <<x>> \o SubSeq(rest, n + 1, Len(rest))

\* candidates.sort(key=lambda x: x['score'], reverse=True): a stable sort
RECURSIVE SortByScoreDesc(_)
SortByScoreDesc(cands) ==
  IF cands = << >> THEN << >>
  ELSE InsertDesc(SortByScoreDesc(SubSeq(cands, 1, Len(cands) - 1)),
                  cands[Len(cands)])

PassesThreshold(c) == c.score >= SCORE_THRESHOLD

\* [c for c in candidates if c['score'] >= 6.0]
RECURSIVE FilterThreshold(_)
FilterThreshold(cands) ==
  IF cands = << >> THEN << >>
  ELSE IF PassesThreshold(cands[1])
       THEN <<cands[1]>> \o FilterThreshold(Tail(cands))
       ELSE FilterThreshold(Tail(cands))

\* the branch taken at "if requires_scoring and ENABLE_LLM_SCORING and candidates"
\* ScoringBranch that does not look at the ENABLE_LLM_SCORING switch
ScoringBranchIgnoresSwitch(cfg, enabled, cands) ==
  Get(cfg, "requires_scoring", FALSE) /\ cands # << >>

ScoringBranch(cfg, enabled, cands) ==
  Get(cfg, "requires_scoring", FALSE) /\ enabled /\ cands # << >>

\* the gate on a batch that went through the scorer
GateScored(scored, remaining) ==
  Take(FilterThreshold(SortByScoreDesc(scored)), remaining)

\* GateUnscored taking one candidate more than the slots that remain
GateUnscoredOneMore(cands, remaining) == Take(cands, remaining + 1)

\* the gate on a batch that did not
GateUnscored(cands, remaining) == Take(cands, remaining)

Row(c, cfg) ==
  [id |-> c.id, title |-> c.title, url |-> c.url, source |-> cfg.name,
   category |-> cfg.category, published |-> c.published, fetched |-> c.fetched,
   summary |-> c.summary, score |-> c.score, tier |-> Get(cfg, "tier", DEFAULT_TIER)]

\* INSERT INTO articles: the primary key makes it raise on an id that exists
InsertRaises(view, row) == Exists(view, row.id)

\* the insert loop: the rows inserted before the first INSERT that raises
RECURSIVE InsertLoop(_, _, _)
InsertLoop(admitted, cfg, view) ==
  IF admitted = << >> THEN << >>
  ELSE IF InsertRaises(view, Row(admitted[1], cfg)) THEN << >>
  ELSE <<Row(admitted[1], cfg)>>
         \o InsertLoop(Tail(admitted), cfg, Append(view, Row(admitted[1], cfg)))

\* the arguments of the calls of score_research_paper, up to the prompt's
\* summary[:500]
ScorerCalls(cands) ==
  [i \in 1..Len(cands) |->
     [title |-> cands[i].title, summary |-> Take(cands[i].summary, ABSTRACT_CHARS)]]

\* one call of fetch_feed, as a record of what each stage produced
fetch_feed(cfg, view, feed, today, enabled, replies) ==
  LET content   == feed.entries
      aborted   == feed.bozo /\ content = << >>
      remaining == remaining_slots(Get(cfg, "max_per_day", DEFAULT_MAX_PER_DAY),
                                   CountSourceDay(view, cfg.name, today))
      cands     == IF aborted THEN << >> ELSE Candidates(content, view, today)
      scoring   == ScoringBranch(cfg, enabled, cands)
      scored    == IF scoring THEN ScoreAll(cands, enabled, replies) ELSE cands
      admitted  == IF scoring THEN GateScored(scored, remaining)
                   ELSE GateUnscored(cands, remaining)
      inserted  == InsertLoop(admitted, cfg, view)
      failed    == Len(inserted) < Len(admitted)
  IN  [name |-> cfg.name, content |-> content, today |-> today,
       enabled |-> enabled, replies |-> replies, aborted |-> aborted,
       calls |-> IF scoring THEN ScorerCalls(cands) ELSE << >>,
       remaining |-> remaining, candidates |-> cands, scoring |-> scoring,
       scored |-> scored, admitted |-> admitted, inserted |-> inserted,
       failed |-> failed,
       result |-> IF aborted \/ failed THEN 0 ELSE Len(admitted)]

(***************************************************************************)
(* State.                                                                  *)
(***************************************************************************)
VARIABLES
  articles,            \* the committed rows of table articles, in rowid order
  pending,             \* rows inserted by the open connection, not committed
  pc,                  \* "idle": no process; "running": main() is in its loop
  feedIdx,             \* main(): index in feeds of the next feed to fetch
  total_new,           \* main(): total_new
  ENABLE_LLM_SCORING,  \* module constant read from the environment at start
  clock,               \* the current UTC calendar day
  runs,                \* number of runs of main() started so far
  last,                \* history: what the most recent fetch_feed call did
  shadow,              \* history: the run with its failed passes left out
  hist,                \* history: per feed, the input of its previous pass
  summaryCall          \* a call of clean_summary: its arguments and its result

vars == <<articles, pending, pc, feedIdx, total_new, ENABLE_LLM_SCORING,
          clock, runs, last, shadow, hist, summaryCall>>

\* the table as the open connection reads it
View == articles \o pending

NoHist == [seen |-> FALSE, feed |-> [entries |-> << >>, bozo |-> FALSE],
           today |-> 0, enabled |-> FALSE, ids |-> << >>, replies |-> << >>]

NoPass ==
  [name |-> "", content |-> << >>, today |-> 0, enabled |-> FALSE,
   replies |-> << >>, aborted |-> FALSE, calls |-> << >>, remaining |-> 0,
   candidates |-> << >>, scoring |-> FALSE, scored |-> << >>,
   admitted |-> << >>, inserted |-> << >>, failed |-> FALSE, result |-> 0,
   before |-> << >>, afterFailure |-> FALSE, comparable |-> FALSE,
   shadowAdmitted |-> << >>, prev |-> NoHist]

Ids(cands) == [i \in 1..Len(cands) |-> cands[i].id]

\* every candidate of cands has a reply among those given to ids
Covered(cands, ids) ==
  \A i \in 1..Len(cands) : \E p \in 1..Len(ids) : ids[p] = cands[i].id

\* the scorer gave one reply per id
Consistent(ids, replies) ==
  \A p, q \in 1..Len(ids) : ids[p] = ids[q] => replies[p] = replies[q]

\* the replies the scorer gave to ids, asked for the candidates cands
RepliesById(cands, ids, replies) ==
  [i \in 1..Len(cands) |->
     replies[CHOOSE p \in 1..Len(ids) : ids[p] = cands[i].id]]

\* no call of clean_summary on its own
NoCall == [summary |-> << >>, max_length |-> SUMMARY_MAX_LENGTH,
           returned |-> FALSE, result |-> << >>]

\* first run: data/articles.db does not exist and init_db creates the table
InitStore ==
  /\ articles = << >>
  /\ pending = << >>
  /\ pc = "idle"
  /\ feedIdx = 1
  /\ total_new = 0
  /\ ENABLE_LLM_SCORING = FALSE
  /\ clock = 1
  /\ runs = 0
  /\ last = NoPass
  /\ shadow = [view |-> << >>, failures |-> 0]
  /\ hist = [i \in 1..Len(feeds) |-> NoHist]

Init ==
  /\ InitStore
  /\ summaryCall = NoCall

\* the process starts: the module reads OPENAI_API_KEY, main() calls init_db()
StartRunUpTo(maxRuns) ==
  /\ pc = "idle"
  /\ runs < maxRuns
  /\ pc' = "running"
  /\ runs' = runs + 1
  /\ feedIdx' = 1
  /\ total_new' = 0
  /\ pending' = << >>
  /\ ENABLE_LLM_SCORING' \in BOOLEAN
  /\ last' = NoPass
  /\ shadow' = [view |-> articles, failures |-> 0]
  /\ UNCHANGED <<articles, clock, hist, summaryCall>>

\* the same call of fetch_feed in the run without its failed passes: its
\* candidates, whether it can be compared, and what it does
ShadowPass(cfg, feed, r) ==
  LET sc   == IF r.aborted THEN << >>
              ELSE Candidates(feed.entries, shadow.view, clock)
      ss   == ScoringBranch(cfg, ENABLE_LLM_SCORING, sc)
      same == Ids(sc) = Ids(r.candidates)
      ok   == ss => /\ r.scoring
                    /\ \/ same
                       \/ /\ Covered(sc, Ids(r.candidates))
                          /\ Consistent(Ids(r.candidates), r.replies)
  IN  IF ~ok THEN [comparable |-> FALSE, admitted |-> << >>, inserted |-> << >>]
      ELSE [comparable |-> TRUE] @@
           fetch_feed(cfg, shadow.view, feed, clock, ENABLE_LLM_SCORING,
                      IF ~ss THEN << >>
                      ELSE IF same THEN r.replies
                      ELSE RepliesById(sc, Ids(r.candidates), r.replies))

\* one iteration of main()'s loop: new = fetch_feed(feed, conn); total_new += new
FetchFeedWith(Results, Replies) ==
  /\ pc = "running"
  /\ feedIdx <= Len(feeds)
  /\ \E feed \in Results :
     \E cfg \in {feeds[feedIdx]} :
     \E cands \in {IF feed.bozo /\ feed.entries = << >> THEN << >>
                   ELSE Candidates(feed.entries, View, clock)} :
     \E replies \in [1..(IF ScoringBranch(cfg, ENABLE_LLM_SCORING, cands)
                         THEN Len(cands) ELSE 0) -> Replies] :
     \E r \in {fetch_feed(cfg, View, feed, clock, ENABLE_LLM_SCORING, replies)} :
     \E rs \in {ShadowPass(cfg, feed, r)} :
        /\ last' = r @@ [before |-> View,
                         afterFailure |-> shadow.failures > 0,
                         comparable |-> rs.comparable,
                         shadowAdmitted |-> rs.admitted,
                         prev |-> hist[feedIdx]]
        /\ shadow' = [view |-> IF r.aborted \/ r.failed THEN shadow.view
                               ELSE shadow.view \o rs.inserted,
                      failures |-> IF r.aborted \/ r.failed THEN 1
                                   ELSE shadow.failures]
        /\ hist' = [hist EXCEPT ![feedIdx] =
                      [seen |-> TRUE, feed |-> feed, today |-> clock,
                       enabled |-> ENABLE_LLM_SCORING,
                       ids |-> IF r.scoring THEN Ids(r.candidates) ELSE << >>,
                       replies |-> replies]]
        /\ total_new' = total_new + r.result
        /\ IF r.aborted
           THEN UNCHANGED <<articles, pending>>
           ELSE IF r.failed
                \* the except clause returns without rollback
                THEN /\ pending' = pending \o r.inserted
                     /\ UNCHANGED articles
                \* conn.commit()
                ELSE /\ articles' = articles \o pending \o r.inserted
                     /\ pending' = << >>
  /\ feedIdx' = feedIdx + 1
  /\ UNCHANGED <<pc, ENABLE_LLM_SCORING, clock, runs, summaryCall>>

\* conn.close() after the loop: the open transaction is rolled back
Close ==
  /\ pc = "running"
  /\ feedIdx > Len(feeds)
  /\ pc' = "idle"
  /\ pending' = << >>
  /\ UNCHANGED <<articles, feedIdx, total_new, ENABLE_LLM_SCORING, clock, runs,
                 last, shadow, hist, summaryCall>>

\* midnight UTC passes (between two runs)
Tick ==
  /\ pc = "idle"
  /\ clock < MaxDay
  /\ clock' = clock + 1
  /\ UNCHANGED <<articles, pending, pc, feedIdx, total_new, ENABLE_LLM_SCORING,
                 runs, last, shadow, hist, summaryCall>>

(***************************************************************************)
(* Spec: repeated runs of main() on the coarse inputs.                     *)
(***************************************************************************)
CoarseReplies ==
  { [ok |-> FALSE, text |-> << >>],
    [ok |-> TRUE, text |-> <<"9">>] }

StartRun == StartRunUpTo(MaxRuns)

FetchFeed == FetchFeedWith(CoarseResults, CoarseReplies)

Next == StartRun \/ FetchFeed \/ Close \/ Tick

Spec == Init /\ [][Next]_vars

(***************************************************************************)
(* SpecGate: one run of main() on all the inputs of the model.             *)
(***************************************************************************)
StartOnce == StartRunUpTo(1)

FetchFeedScored == FetchFeedWith(ParseResults, ScorerReplies)

NextGate == StartOnce \/ FetchFeedScored \/ Close \/ Tick

SpecGate == Init /\ [][NextGate]_vars

(***************************************************************************)
(* SpecSummary: clean_summary on its own, called once on a summary and a   *)
(* max_length drawn from the inputs below.                                 *)
(***************************************************************************)
SummaryAlphabet == {"a", " ", "<", ">"}

MinLength == 4

\* the texts of at most n characters over the alphabet
RECURSIVE TextsUpTo(_)
TextsUpTo(n) ==
  IF n = 0 THEN {<< >>}
  ELSE TextsUpTo(n - 1)
         \cup {Append(t, c) : t \in {u \in TextsUpTo(n - 1) : Len(u) = n - 1},
                               c \in SummaryAlphabet}

SummaryInputs == TextsUpTo(MaxSummaryLen)

InitSummary ==
  /\ InitStore
  /\ summaryCall \in [summary : SummaryInputs, max_length : MinLength..MaxLength,
                       returned : {FALSE}, result : {<< >>}]

\* clean = clean_summary(summary, max_length)
CleanSummary ==
  /\ ~summaryCall.returned
  /\ summaryCall' = [summaryCall EXCEPT
                       !.returned = TRUE,
                       !.result = clean_summary(summaryCall.summary,
                                                summaryCall.max_length)]
  /\ UNCHANGED <<articles, pending, pc, feedIdx, total_new, ENABLE_LLM_SCORING,
                 clock, runs, last, shadow, hist>>

NextSummary == CleanSummary

SpecSummary == InitSummary /\ [][NextSummary]_vars

(***************************************************************************)
(* Properties.                                                             *)
(***************************************************************************)
FeedIndex(name) == CHOOSE i \in 1..Len(feeds) : feeds[i].name = name

MaxPerDay(i) == Get(feeds[i], "max_per_day", DEFAULT_MAX_PER_DAY)

PassDone == last.name # ""

\* the ids of a batch, and whether its persist step meets an id that exists
HasDuplicate(batch, before) ==
  \E i \in 1..Len(batch) :
     \/ Exists(before, batch[i].id)
     \/ \E j \in 1..(i - 1) : batch[j].id = batch[i].id

\* the rows a pass inserted are those of its admitted list, in that order,
\* and all of them unless an INSERT raised
InsertedInOrder ==
  /\ Len(last.inserted) <= Len(last.admitted)
  /\ \A i \in 1..Len(last.inserted) :
        /\ last.inserted[i].id = last.admitted[i].id
        /\ last.inserted[i].score = last.admitted[i].score
  /\ ~last.failed => Len(last.inserted) = Len(last.admitted)
  /\ last.failed => HasDuplicate(last.admitted, last.before)

\* C1: for every source and every calendar day D, the number of stored rows
\* of that source published on D is at most the source's max_per_day.
C1_QuotaEveryDay ==
  \A i \in 1..Len(feeds), d \in 1..MaxDay :
     CountSourceDay(articles, feeds[i].name, d) <= MaxPerDay(i)

\* C2: while the day does not change, a source that holds at most
\* max_per_day rows published today still does after any step, and a pass
\* inserts at most remaining = max(0, max_per_day - stored today) rows.
C2_SameDayStep ==
  \A i \in 1..Len(feeds) :
     /\ (clock' = clock /\ CountSourceDay(View, feeds[i].name, clock) <= MaxPerDay(i))
          => CountSourceDay(View', feeds[i].name, clock') <= MaxPerDay(i)
     /\ (last'.name = feeds[i].name /\ last' # last)
          => Len(last'.inserted)
               <= Max(0, MaxPerDay(i)
                         - CountSourceDay(last'.before, feeds[i].name, last'.today))

C2_SameDayQuota == [][C2_SameDayStep]_vars

\* a second run on the same day meets a source whose quota of today is used
\* up, has candidates, and stores none of them
C2_Witness ==
  /\ runs = 2
  /\ last.name = "X"
  /\ last.today = clock
  /\ last.candidates # << >>
  /\ last.remaining = 0
  /\ last.inserted = << >>
  /\ CountSourceDay(View, "X", clock) = MaxPerDay(FeedIndex("X"))

\* the scorer answered the candidates of this pass as it answered them in
\* the previous pass of the same feed
SameAnswers ==
  \A i \in 1..Len(last.replies), p \in 1..Len(last.prev.ids) :
     last.prev.ids[p] = last.candidates[i].id
       => last.replies[i] = last.prev.replies[p]

\* C3: a pass over the same feed content, under the same scoring switch and
\* with the same scorer answers as the previous pass of that feed, inserts no
\* row (stated here for two passes of the same day, the case in which no new
\* day reopens the quota).
C3_Idempotent ==
  (/\ PassDone
   /\ last.prev.seen
   /\ last.prev.feed = [entries |-> last.content, bozo |-> last.prev.feed.bozo]
   /\ last.prev.today = last.today
   /\ last.prev.enabled = last.enabled
   /\ SameAnswers)
    => last.inserted = << >>

\* C4: when the persist step meets an id that already exists, nothing is
\* raised, the rows already there are unchanged, and every admitted item is
\* in the store and counted once.
C4_DuplicateIsNoOp ==
  (PassDone /\ HasDuplicate(last.admitted, last.before))
    => /\ ~last.failed
       /\ SubSeq(View, 1, Len(last.before)) = last.before
       /\ \A i \in 1..Len(last.admitted) : Exists(View, last.admitted[i].id)
       /\ last.result
            = Cardinality({last.admitted[i].id : i \in 1..Len(last.admitted)}
                            \ {last.before[k].id : k \in 1..Len(last.before)})

\* C5: a failed pass reports 0, and a pass that follows a failed pass of the
\* same run admits what it admits in the run without the failed pass.
C5_FailureIsolation ==
  /\ (PassDone /\ (last.aborted \/ last.failed)) => last.result = 0
  /\ (PassDone /\ last.afterFailure /\ last.comparable)
       => Ids(last.admitted) = Ids(last.shadowAdmitted)

\* position, in the list sorted by score descending with ties in fetch
\* order, of the i-th element of batch
RankDesc(batch, i) ==
  1 + Cardinality({j \in 1..Len(batch) :
                     \/ batch[j].score > batch[i].score
                     \/ batch[j].score = batch[i].score /\ j < i})

SortedDesc(batch) ==
  [r \in 1..Len(batch) |->
     batch[CHOOSE i \in 1..Len(batch) : RankDesc(batch, i) = r]]

AtOrAbove(batch, threshold) ==
  Cardinality({i \in 1..Len(batch) : batch[i].score >= threshold})

\* C6: in a pass that scores, the admitted items are the first
\* min(remaining_slots, k) elements of the candidates sorted by score
\* descending with ties in fetch order, k the number of candidates scored
\* 6.0 or more; no row below 6.0 is inserted; rows are inserted in that order.
C6_GateCorrect ==
  (PassDone /\ last.scoring)
    => /\ last.admitted
            = Take(SortedDesc(last.scored),
                   Min(last.remaining, AtOrAbove(last.scored, 600)))
       /\ \A i \in 1..Len(last.inserted) : last.inserted[i].score >= 600
       /\ InsertedInOrder

\* three candidates, all at 6.0 or more, two slots: the best is the third in
\* fetch order and is inserted first
C6_Witness ==
  /\ last.scoring
  /\ Len(last.scored) = 3
  /\ AtOrAbove(last.scored, 600) = 3
  /\ last.remaining = 2
  /\ last.scored[3].score > last.scored[1].score
  /\ last.scored[1].score = last.scored[2].score
  /\ Len(last.inserted) = 2
  /\ last.inserted[1].id = last.scored[3].id
  /\ last.inserted[2].id = last.scored[1].id

\* a denylist keyword occurs, whatever the case, in the title or in the raw
\* summary of the entry
DenylistHit(e) ==
  \E k \in 1..Len(skip_keywords) :
     \/ Contains(Lower(Get(e, "title", << >>)), Lower(skip_keywords[k]))
     \/ Contains(Lower(SummaryRaw(e)), Lower(skip_keywords[k]))

DeniedEntries == {e \in EntryPool : DenylistHit(e)}

\* C7: an entry with a denylist keyword in its title or raw summary is
\* never stored and never passed to the scorer.
C7_Denylist ==
  \A e \in DeniedEntries :
     /\ \A i \in 1..Len(View) : View[i].url # e.link /\ View[i].title # e.title
     /\ \A i \in 1..Len(last.calls) : last.calls[i].title # e.title

\* a scoring pass with free slots met denied entries among the first 30
\* and stored the other candidates
C7_Witness ==
  /\ last.scoring
  /\ last.remaining = 2
  /\ \E i, j \in 1..Min(Len(last.content), ENTRY_CAP) :
        /\ last.content[i] \in DeniedEntries
        /\ last.content[j] \in DeniedEntries
        /\ DenylistHit([title |-> last.content[i].title])
        /\ ~DenylistHit([title |-> last.content[j].title])
  /\ Len(last.inserted) = 2

\* the entries among the first 30 of a feed that have a link whose id is
\* not stored, in feed order
LinkedAndNew(content, before) ==
  LET Keep(e) == /\ Get(e, "link", "") # ""
                 /\ ~Exists(before, generate_id(e.link))
  IN  SelectSeq(Take(content, 30), Keep)

\* the same, without the entries whose title, a space and raw summary
\* contain a denylist keyword, whatever the case
LinkedNewAndAllowed(content, before) ==
  LET Keep(e) ==
        /\ Get(e, "link", "") # ""
        /\ ~Exists(before, generate_id(e.link))
        /\ \A k \in 1..Len(skip_keywords) :
              ~Contains(Lower(Get(e, "title", Untitled) \o <<" ">> \o SummaryRaw(e)),
                        Lower(skip_keywords[k]))
  IN  SelectSeq(Take(content, 30), Keep)

Links(entries) == [i \in 1..Len(entries) |-> entries[i].link]

Urls(batch) == [i \in 1..Len(batch) |-> batch[i].url]

NonScoringPass ==
  /\ PassDone
  /\ ~last.aborted
  /\ ~Get(feeds[FeedIndex(last.name)], "requires_scoring", FALSE)

\* C8 as claimed: a feed that does not require scoring admits the first
\* min(remaining_slots, c) of the entries that have a link and a new id,
\* nothing else being filtered; its rows carry the feed's name and score 5.0.
C8_NoOtherFilter ==
  NonScoringPass
    => /\ Urls(last.admitted)
            = Take(Links(LinkedAndNew(last.content, last.before)), last.remaining)
       /\ \A i \in 1..Len(last.inserted) :
             last.inserted[i].source = last.name /\ last.inserted[i].score = 500
       /\ InsertedInOrder

\* C8 amended: the candidates are also cleared of the denylisted entries.
C8_UnscoredAdmission ==
  NonScoringPass
    => /\ Urls(last.admitted)
            = Take(Links(LinkedNewAndAllowed(last.content, last.before)),
                   last.remaining)
       /\ \A i \in 1..Len(last.inserted) :
             last.inserted[i].source = last.name /\ last.inserted[i].score = 500
       /\ InsertedInOrder

\* a second run of the non-scoring feed meets a feed of more than 30
\* entries, some denied, one already stored, some without link
C8_Witness ==
  /\ NonScoringPass
  /\ Len(last.content) > ENTRY_CAP
  /\ Exists(last.before, generate_id(EntryA.link))
  /\ \E i \in 1..ENTRY_CAP : last.content[i] \in DeniedEntries
  /\ \E i \in 1..ENTRY_CAP : "link" \notin DOMAIN last.content[i]
  /\ Len(last.inserted) = 1
  /\ last.inserted[1].url = EntryC.link

\* what the code makes of each reply of the model, worked out by hand
ExpectedScore(reply) ==
  IF ~reply.ok THEN 500
  ELSE CASE reply.text = <<"9">> -> 900
         [] reply.text = <<"S", "c", "o", "r", "e", ":", " ", "7", ".", "5">> -> 750
         [] reply.text = <<"6", ".", "0">> -> 600
         [] reply.text = <<"5", ".", "9", "9">> -> 599
         [] reply.text = <<"1", "5">> -> 1000
         [] reply.text = <<"N", "/", "A">> -> 500
         [] reply.text = <<"1", ".", "2", ".", "3">> -> 500

\* C9: every stored row has a score in [0, 10]: 5.0 when the pass did not
\* score, else the scorer's answer clamped to [0, 10], 5.0 when there is none.
C9_ScoreRange ==
  /\ \A i \in 1..Len(View) : View[i].score >= 0 /\ View[i].score <= 1000
  /\ (PassDone /\ ~last.scoring)
       => \A i \in 1..Len(last.inserted) : last.inserted[i].score = 500
  /\ (PassDone /\ last.scoring)
       => /\ \A i \in 1..Len(last.scored) :
                last.scored[i].score = ExpectedScore(last.replies[i])
          /\ \A j \in 1..Len(last.inserted) :
                /\ last.inserted[j].score = last.admitted[j].score
                /\ \E i \in 1..Len(last.scored) : last.scored[i] = last.admitted[j]

\* an answer above 10 was clamped and its row stored with score 10
C9_Witness ==
  /\ last.scoring
  /\ \E i \in 1..Len(last.replies), j \in 1..Len(last.inserted) :
        /\ last.replies[i].ok
        /\ last.replies[i].text = <<"1", "5">>
        /\ last.inserted[j].id = last.candidates[i].id
        /\ last.inserted[j].score = 1000
        /\ Exists(articles, last.inserted[j].id)

\* C10: in a pass that scores, a candidate whose scorer call raised has
\* score 5.0, every candidate was passed to the scorer and the others have
\* their own scores, and the pass gates and persists as usual: it does not
\* fail unless an INSERT meets an id that exists, and reports its count.
C10_ScorerFailure ==
  (PassDone /\ last.scoring)
    => /\ Len(last.calls) = Len(last.candidates)
       /\ Len(last.scored) = Len(last.candidates)
       /\ \A i \in 1..Len(last.candidates) :
             /\ last.calls[i].title = last.candidates[i].title
             /\ last.scored[i].id = last.candidates[i].id
             /\ ~last.replies[i].ok => last.scored[i].score = 500
             /\ last.replies[i].ok
                  => last.scored[i].score = ExpectedScore(last.replies[i])
       /\ ~last.aborted
       /\ Ids(last.admitted)
            = Ids(Take(SortedDesc(last.scored),
                       Min(last.remaining, AtOrAbove(last.scored, 600))))
       /\ last.failed => HasDuplicate(last.admitted, last.before)
       /\ ~last.failed => /\ last.result = Len(last.admitted)
                          /\ \A i \in 1..Len(last.admitted) :
                                Exists(articles, last.admitted[i].id)

\* the scorer raised for the first candidate; the second and third were
\* scored, admitted, stored and counted
C10_Witness ==
  /\ last.scoring
  /\ Len(last.candidates) = 3
  /\ ~last.replies[1].ok
  /\ last.scored[1].score = 500
  /\ last.replies[2].ok /\ last.replies[3].ok
  /\ Len(last.inserted) = 2
  /\ last.result = 2
  /\ total_new >= 2
  /\ ~Exists(View, last.candidates[1].id)

\* the configuration of a feed without its requires_scoring key
WithoutScoring(cfg) == [k \in DOMAIN cfg \ {"requires_scoring"} |-> cfg[k]]

\* a pass of a feed that requires scoring, made while the scorer is unavailable
UnavailablePass ==
  /\ PassDone
  /\ ~last.aborted
  /\ Get(feeds[FeedIndex(last.name)], "requires_scoring", FALSE)
  /\ ~last.enabled

\* what the same pass does when the feed does not require scoring
AsNonScoring ==
  fetch_feed(WithoutScoring(feeds[FeedIndex(last.name)]), last.before,
             [entries |-> last.content, bozo |-> FALSE], last.today,
             last.enabled, << >>)

\* C11: with the scorer unavailable, a feed that requires scoring admits as
\* a feed that does not: the scorer is not called, every candidate keeps
\* 5.0, none is dropped by the 6.0 threshold, and the first
\* min(remaining_slots, number of candidates) candidates in fetch order are
\* admitted and inserted, and stored when the pass commits.
C11_UnavailableScorer ==
  UnavailablePass
    => /\ ~last.scoring
       /\ last.calls = << >>
       /\ \A i \in 1..Len(last.candidates) : last.candidates[i].score = 500
       /\ last.admitted
            = Take(last.candidates, Min(last.remaining, Len(last.candidates)))
       /\ Urls(last.candidates)
            = Links(LinkedNewAndAllowed(last.content, last.before))
       /\ last.admitted = AsNonScoring.admitted
       /\ last.inserted = AsNonScoring.inserted
       /\ last.failed = AsNonScoring.failed
       /\ last.result = AsNonScoring.result
       /\ InsertedInOrder
       /\ ~last.failed
            => /\ last.result = Len(last.admitted)
               /\ \A i \in 1..Len(last.admitted) :
                     \E j \in 1..Len(articles) :
                        /\ articles[j].id = last.admitted[i].id
                        /\ articles[j].score = 500

\* the scoring feed met three candidates with two slots while the scorer was
\* unavailable: the first two in fetch order are stored with score 5.0
C11_Witness ==
  /\ UnavailablePass
  /\ Len(last.candidates) = 3
  /\ last.remaining = 2
  /\ Len(last.inserted) = 2
  /\ last.inserted[1].id = last.candidates[1].id
  /\ last.inserted[2].id = last.candidates[2].id
  /\ last.inserted[1].score = 500
  /\ Exists(articles, last.candidates[2].id)
  /\ ~Exists(articles, last.candidates[3].id)
  /\ last.result = 2

\* the text clean_summary has after removing the tags and collapsing the
\* whitespace, before it looks at max_length
Cleaned(summary) ==
  IF summary = << >> THEN << >> ELSE Strip(CollapseWs(StripTags(summary, 1), 1))

Ellipsis == <<".", ".", ".">>

\* the first k characters of text end at a word boundary: no word of text
\* has characters on both sides of the cut
WordBoundary(text, k) ==
  \/ k = 0
  \/ k >= Len(text)
  \/ text[k] = " "
  \/ text[k + 1] = " "

\* result is a prefix of text that ends at a word boundary, then the marker
CutAtWord(text, result) ==
  /\ Len(result) >= 3
  /\ SubSeq(result, Len(result) - 2, Len(result)) = Ellipsis
  /\ Len(result) - 3 <= Len(text)
  /\ SubSeq(result, 1, Len(result) - 3) = SubSeq(text, 1, Len(result) - 3)
  /\ WordBoundary(text, Len(result) - 3)

LongCall ==
  /\ summaryCall.returned
  /\ Len(Cleaned(summaryCall.summary)) > summaryCall.max_length

\* C12: for a cleaned text longer than max_length, clean_summary returns at
\* most max_length characters, ending with "...", the text before the marker
\* being a prefix of the cleaned text that ends at a word boundary.
C12_Truncation ==
  LongCall
    => /\ Len(summaryCall.result) <= summaryCall.max_length
       /\ CutAtWord(Cleaned(summaryCall.summary), summaryCall.result)

\* the number of committed rows that are rows inserted by the last pass
DurablyAdded ==
  Cardinality({i \in 1..Len(articles) :
                 \E j \in 1..Len(last.inserted) : articles[i] = last.inserted[j]})

\* C13: the count a pass reports is the number of rows it durably added, and
\* the run total is the number of rows the run added to the table (the run
\* of SpecGate starts on an empty table): no row of a pass that failed and
\* reported 0 is ever committed.
C13_ReportedCount ==
  /\ PassDone => last.result = DurablyAdded
  /\ runs >= 1 => total_new = Len(articles)

====
